---- MODULE Spec2Model ----
(***************************************************************************)
(* State-machine model of the SDH hand node (sdh_only.cpp).                *)
(*                                                                         *)
(* Two threads run the code.  The main thread runs main()'s loop: one      *)
(* updateSdh() (the tick), then ros::spinOnce(), which runs the queued     *)
(* service, topic and action-goal callbacks one after the other.  The      *)
(* action server's execute thread runs executeCB concurrently.  The main   *)
(* thread's position is pcMain, the execute thread's is pcExec; a step of  *)
(* either thread holds at most one access to a field the other thread      *)
(* writes.  The device (SDH::cSDH) is the environment: each call either    *)
(* returns or throws, chosen nondeterministically.                         *)
(***************************************************************************)
EXTENDS Integers, Naturals, Sequences, FiniteSets, TLC

(***************************************************************************)
(* Bounds of the inputs.                                                   *)
(***************************************************************************)
\* largest magnitude (rad/s) of a component of a submitted velocity array
MaxRate == 2
\* largest magnitude (rad) of a component of a submitted position goal
MaxAngle == 1
\* largest number of device calls that throw in one run of the node
MaxFaults == 1

(***************************************************************************)
(* Program constants.                                                      *)
(***************************************************************************)
\* DOF_ is the length of the joint_names parameter (line 198); executeCB, the
\* velocity callback and updateSdh index axes 0..6, so the node runs with 7
DOF_ == 7

Axes == 1..DOF_

\* temperature_names_: the fixed 9-sensor layout
temperature_names_ ==
  << "root", "proximal_finger_1", "distal_finger_1", "proximal_finger_2",
     "distal_finger_2", "proximal_finger_3", "distal_finger_3",
     "controller", "pcb" >>

\* joint_names_ in the order of the published messages (comment at line 757)
joint_names_ ==
  << "sdh_knuckle_joint", "sdh_thumb_2_joint", "sdh_thumb_3_joint",
     "sdh_finger_12_joint", "sdh_finger_13_joint", "sdh_finger_22_joint",
     "sdh_finger_23_joint" >>

\* executeCB: the joint whose goal value goes to device axis i (1-based)
AxisJointName ==
  << "sdh_knuckle_joint", "sdh_finger_22_joint", "sdh_finger_23_joint",
     "sdh_thumb_2_joint", "sdh_thumb_3_joint", "sdh_finger_12_joint",
     "sdh_finger_13_joint" >>

\* topicCallback_setVelocitiesRaw: velocities_[i-1] = data[RawIndex[i]-1]
RawIndex == << 1, 6, 7, 2, 3, 4, 5 >>

\* the indices of lines 759-765 and 804-810 with the permutation applied the
\* other way round (joint 2 read from axis 6 instead of axis 4, and so on)
FromDeviceIndexNotInverted == << 1, 6, 7, 2, 3, 4, 5 >>

\* updateSdh: msg.position[j-1] = actualAngles[FromDeviceIndex[j]-1]
FromDeviceIndex == << 1, 4, 5, 6, 7, 2, 3 >>

(***************************************************************************)
(* Numbers.  A double is kept exactly as u + k*K + r/K, where K is the     *)
(* code's factor 180.0 / pi_ (pi_ = 3.1415926): u counts plain units, k    *)
(* the multiples of K (a value converted radians -> degrees) and r the     *)
(* multiples of 1/K (a value converted degrees -> radians).                *)
(***************************************************************************)
Num(u, k, r) == [u |-> u, k |-> k, r |-> r]

Lit(n) == Num(n, 0, 0)

Zero == Lit(0)

\* x * 180.0 / pi_
RadToDeg(x) == Num(x.r, x.u, 0)

\* x * pi_ / 180.0
DegToRad(x) == Num(x.k, 0, x.u)

Neg(x) == Num(0 - x.u, 0 - x.k, 0 - x.r)

Minus(x, y) == Num(x.u - y.u, x.k - y.k, x.r - y.r)

\* the value in units of 1e-4, K = 57.2958, 1/K = 0.0175: used to order values
Approx(x) == x.u * 10000 + x.k * 572958 + x.r * 175

Less(x, y) == Approx(x) < Approx(y)

\* SDH::ToRange(v, min, max)
ToRange(v, min, max) == IF Less(v, min) THEN min ELSE IF Less(max, v) THEN max ELSE v

ZeroVec == [i \in Axes |-> Zero]

(***************************************************************************)
(* Inputs and device answers, drawn from small sets.                       *)
(***************************************************************************)
\* configured transport types: the four the code knows, and one it does not
DeviceTypes == {"RS232", "PCAN", "TCP", "ESD", "USB"}

\* configured device strings
DeviceStrings == {"/dev/can0", "/dev/can1", "192.168.1.42"}

\* the configurations: transport type, device string, OperationMode parameter
Configs ==
  { <<"TCP", "192.168.1.42", "position">>, <<"ESD", "192.168.1.42", "position">>,
    <<"USB", "192.168.1.42", "velocity">>, <<"USB", "192.168.1.42", "effort">> }

\* values of the OperationMode parameter and of a set_operation_mode request
ModeStrings == {"position", "velocity", "effort"}

\* std_msgs::Float64MultiArray data: one array of DOF_ values, one too short
VelocityFull == << Lit(1), Lit(0 - 1), Lit(0), Lit(MaxRate), Lit(0 - MaxRate), Lit(0), Lit(1) >>

VelocityShort == << Lit(1), Lit(0), Lit(0), Lit(0), Lit(0), Lit(0) >>

VelocityMsgs == {VelocityFull, VelocityShort}

\* FollowJointTrajectoryGoal: joint_names and points[*].positions
GoalFull ==
  [ joint_names |-> << "sdh_finger_23_joint", "sdh_finger_22_joint", "sdh_finger_13_joint",
                       "sdh_finger_12_joint", "sdh_thumb_3_joint", "sdh_thumb_2_joint",
                       "sdh_knuckle_joint" >>,
    points |-> << << Lit(MaxAngle), Lit(0), Lit(0 - MaxAngle), Lit(0), Lit(MaxAngle),
                     Lit(0), Lit(MaxAngle) >> >> ]

GoalNoPoint == [ joint_names |-> joint_names_, points |-> << >> ]

\* a goal with a point of DOF_ positions that does not name sdh_knuckle_joint
GoalMissingName ==
  [ joint_names |-> << "sdh_finger_23_joint", "sdh_finger_22_joint", "sdh_finger_13_joint",
                       "sdh_finger_12_joint", "sdh_thumb_3_joint", "sdh_thumb_2_joint" >>,
    points |-> GoalFull.points ]

Goals == {GoalFull, GoalNoPoint, GoalMissingName}

NoGoal == [ joint_names |-> << >>, points |-> << >> ]

\* answer of GetAxisMaxVelocity(all_real_axes), degrees per second
AxisMaxVelocity == [i \in Axes |-> Lit(100)]

\* answers of GetAxisActualAngle / GetAxisActualVelocity, degrees
ActualVectors == { [i \in Axes |-> Lit(10 * i)] }

\* what an out-of-range read of an empty vector may yield when it does not trap
GarbageVectors == { ZeroVec }

\* answers of GetAxisActualState: 0 is idle, anything else is not
AxisStateVectors ==
  { [i \in Axes |-> 0], [i \in Axes |-> 1], [i \in Axes |-> IF i = DOF_ THEN 0 ELSE 1] }

\* answers of GetTemperature(all_temperature_sensors)
TemperatureReadings == { [i \in 1..9 |-> Lit(20 + i)], [i \in 1..8 |-> Lit(20 + i)] }

(***************************************************************************)
(* State.                                                                  *)
(***************************************************************************)
VARIABLES
  sdhdevicetype_,    \* configuration: transport type
  sdhdevicestring_,  \* configuration: device string
  cfgOperationMode,  \* configuration: the OperationMode parameter as loaded by init()
  isInitialized_,
  hasNewGoal_,
  pendingFrom,       \* history: what set hasNewGoal_ last, "none" once it is cleared
  operationMode_,
  targetAngles_,
  velocities_,
  max_velocities_,
  state_,
  pcMain,            \* position of the main thread
  handler,           \* the function the main thread runs or has just left
  req,               \* the request the running callback was given
  res,               \* the response of the callback that has just returned
  calls,             \* device calls of the running (or just left) function, with outcomes
  published,         \* messages published by the running (or just left) tick
  pcExec,            \* position of the action server's execute thread
  cur_goal,          \* the goal executeCB was called with, once it has looked at it
  new_goal_,         \* the action server holds a next goal (isNewGoalAvailable)
  as_status,         \* terminal state set for the last goal
  execLog,           \* last message logged by executeCB
  isOpen,            \* device: the transport is open
  faults             \* device: the number of calls that have thrown so far

cfgVars == << sdhdevicetype_, sdhdevicestring_, cfgOperationMode >>

nodeVars == << isInitialized_, hasNewGoal_, pendingFrom, operationMode_, targetAngles_,
               velocities_, max_velocities_, state_ >>

mainVars == << pcMain, handler, req, res, calls, published >>

execVars == << pcExec, cur_goal, new_goal_, as_status, execLog >>

devVars == << isOpen, faults >>

vars == << cfgVars, nodeVars, mainVars, execVars, devVars >>

NoRes == [returned |-> FALSE, success |-> FALSE, message |-> ""]

Response(success, message) == [returned |-> TRUE, success |-> success, message |-> message]

\* a request: the data of a cob_srvs::SetString request (the mode asked for), or
\* the data of a std_msgs::Float64MultiArray message
NoReq == [mode |-> "none", data |-> << >>]

ModeReq(mode) == [mode |-> mode, data |-> << >>]

DataReq(data) == [mode |-> "none", data |-> data]

\* SdhNode::SdhNode and SdhNode::init
Init ==
  /\ \E c \in Configs :
       /\ c[1] \in DeviceTypes /\ c[2] \in DeviceStrings /\ c[3] \in ModeStrings
       /\ sdhdevicetype_ = c[1]
       /\ sdhdevicestring_ = c[2]
       /\ cfgOperationMode = c[3]
  /\ operationMode_ = cfgOperationMode
  /\ isInitialized_ = FALSE
  /\ hasNewGoal_ = FALSE
  /\ pendingFrom = "none"
  /\ targetAngles_ = << >>
  /\ velocities_ = ZeroVec
  /\ max_velocities_ = << >>
  /\ state_ = [i \in Axes |-> 0]
  /\ pcMain = "tick"
  /\ handler = "none"
  /\ req = NoReq
  /\ res = NoRes
  /\ calls = << >>
  /\ published = << >>
  /\ pcExec = "idle"
  /\ cur_goal = NoGoal
  /\ new_goal_ = FALSE
  /\ as_status = "none"
  /\ execLog = "none"
  /\ isOpen = FALSE
  /\ faults = 0

(***************************************************************************)
(* Device calls.  A call is recorded with its argument (GetTemperature     *)
(* with the readings it returned) and its outcome; ok = FALSE is a thrown  *)
(* SDH::cSDHLibraryException.                                              *)
(***************************************************************************)
CallWith(name, arg, ok) == [call |-> name, arg |-> arg, ok |-> ok]

Call(name, ok) == CallWith(name, << >>, ok)

\* a try block around the calls `names`: those made until the first one throws
Try(names, oks) ==
  LET n == IF \E i \in 1..Len(names) : ~oks[i]
           THEN CHOOSE i \in 1..Len(names) : ~oks[i] /\ \A j \in 1..(i - 1) : oks[j]
           ELSE Len(names)
  IN  [i \in 1..n |-> Call(names[i], oks[i])]

\* some call of the sequence threw
Threw(cs) == \E i \in 1..Len(cs) : ~cs[i].ok

\* the number of calls of the sequence that threw
Thrown(cs) == Cardinality({i \in 1..Len(cs) : ~cs[i].ok})

\* the call `name` was made and returned
Returned(cs, name) == \E i \in 1..Len(cs) : cs[i].call = name /\ cs[i].ok

\* the outcomes of n calls in a row: no more of them throw than MaxFaults allows
Outcomes(n) ==
  IF faults >= MaxFaults THEN { [i \in 1..n |-> TRUE] }
  ELSE IF faults + 1 = MaxFaults THEN { [i \in 1..n |-> i # f] : f \in 0..n }
  ELSE [1..n -> BOOLEAN]

\* the device makes the calls cs; at most MaxFaults calls throw in a run
Device(cs) ==
  /\ faults + Thrown(cs) <= MaxFaults
  /\ faults' = faults + Thrown(cs)

isError_ == FALSE

(***************************************************************************)
(* Main thread: leaving a callback, and an exception leaving a function.   *)
(***************************************************************************)
\* the callback h, having made the device calls cs, returns to spinOnce with response r
Return(h, cs, r) ==
  /\ pcMain' = "spin"
  /\ handler' = h
  /\ calls' = cs
  /\ res' = r
  /\ req' = NoReq
  /\ published' = << >>

\* the function h moves on to position p
Goto(h, p, cs) ==
  /\ pcMain' = p
  /\ handler' = h
  /\ calls' = cs
  /\ res' = NoRes

\* a device exception (or a trap) leaves function h uncaught: the process ends
Escape(h, cs) ==
  /\ pcMain' = "crashed"
  /\ handler' = h
  /\ calls' = cs
  /\ res' = NoRes
  /\ req' = NoReq
  /\ UNCHANGED published

(***************************************************************************)
(* updateSdh: the tick.                                                    *)
(***************************************************************************)
\* the diagnostic status with the two branches of line 859 exchanged
DiagnosticMsgSwapped ==
  IF isError_
  THEN [topic |-> "diagnostics", level |-> 2, message |-> "one or more drives are in Error mode"]
  ELSE IF isInitialized_
       THEN [topic |-> "diagnostics", level |-> 1, message |-> "sdh not initialized"]
       ELSE [topic |-> "diagnostics", level |-> 0, message |-> "sdh initialized and running"]

\* the diagnostic status published at the end of updateSdh
DiagnosticMsg ==
  IF isError_
  THEN [topic |-> "diagnostics", level |-> 2, message |-> "one or more drives are in Error mode"]
  ELSE IF isInitialized_
       THEN [topic |-> "diagnostics", level |-> 0, message |-> "sdh initialized and running"]
       ELSE [topic |-> "diagnostics", level |-> 1, message |-> "sdh not initialized"]

\* clampVelocities
clampVelocities(v, maxv) ==
  [i \in 1..Len(v) |-> IF i <= Len(maxv) THEN ToRange(v[i], Neg(maxv[i]), maxv[i]) ELSE v[i]]

\* updateSdh, lines 659-664: the isInitialized_ test and the hasNewGoal_ test
TickStart ==
  /\ pcMain = "tick"
  /\ req' = NoReq
  /\ IF isInitialized_
     THEN /\ Goto("updateSdh", IF hasNewGoal_ THEN "dispatch" ELSE "publish", << >>)
          /\ published' = << >>
     ELSE /\ Goto("updateSdh", "spin", << >>)
          /\ published' = << DiagnosticMsg >>
  /\ UNCHANGED << cfgVars, nodeVars, execVars, devVars >>

\* lines 677-717: the calls that push the goal of the active mode to the device
dispatchCalls(mode, oks) ==
  IF mode = "position"
  THEN << CallWith("SetAxisTargetAngle", targetAngles_, oks[2]) >> \o
       (IF oks[2] THEN << Call("MoveHand", oks[3]) >> ELSE << >>)
  ELSE IF mode = "velocity"
  THEN << CallWith("SetAxisTargetVelocity",
                   clampVelocities(velocities_, max_velocities_), oks[2]) >>
  ELSE << >>

\* updateSdh, lines 666-717: stop, then push the goal by the active mode
TickDispatch ==
  /\ pcMain = "dispatch"
  /\ \E oks \in Outcomes(3) :
       LET cs == << Call("Stop", oks[1]) >> \o dispatchCalls(operationMode_, oks)
       IN  /\ Device(cs)
           /\ calls' = calls \o cs
  /\ velocities_' = IF operationMode_ = "velocity"
                    THEN clampVelocities(velocities_, max_velocities_)
                    ELSE velocities_
  /\ pcMain' = "clear"
  /\ UNCHANGED << cfgVars, isInitialized_, hasNewGoal_, pendingFrom, operationMode_, targetAngles_,
                  max_velocities_, state_, handler, req, res, published, execVars, isOpen >>

\* line 719 made to depend on the dispatch: a goal whose Stop or set-target call
\* threw stays in the slot for the next tick
TickClearUnlessError ==
  /\ pcMain = "clear"
  /\ hasNewGoal_' = IF Threw(calls) THEN hasNewGoal_ ELSE FALSE
  /\ pendingFrom' = IF Threw(calls) THEN pendingFrom ELSE "none"
  /\ pcMain' = "publish"
  /\ UNCHANGED << cfgVars, isInitialized_, operationMode_, targetAngles_, velocities_,
                  max_velocities_, state_, handler, req, res, calls, published, execVars,
                  devVars >>

\* updateSdh, line 719
TickClear ==
  /\ pcMain = "clear"
  /\ hasNewGoal_' = FALSE
  /\ pendingFrom' = "none"
  /\ pcMain' = "publish"
  /\ UNCHANGED << cfgVars, isInitialized_, operationMode_, targetAngles_, velocities_,
                  max_velocities_, state_, handler, req, res, calls, published, execVars,
                  devVars >>

\* msg: positions and velocities in joint_names_ order, radians
JointStateMsg(angles, vels) ==
  [ topic |-> "joint_states",
    name |-> joint_names_,
    position |-> [j \in Axes |-> DegToRad(angles[FromDeviceIndex[j]])],
    velocity |-> [j \in Axes |-> DegToRad(vels[FromDeviceIndex[j]])] ]

\* mimicjointmsg
MimicJointMsg(msg) ==
  [ topic |-> "joint_states",
    name |-> << "schunk_right_finger_21_joint" >>,
    position |-> << msg.position[1] >>,
    velocity |-> << msg.velocity[1] >> ]

\* controllermsg with the subtractions of lines 821-822 turned round
ControllerStateMsgActualMinusDesired(msg, target) ==
  LET desiredPos == IF Len(target) # 0
                    THEN [j \in Axes |-> DegToRad(target[FromDeviceIndex[j]])]
                    ELSE ZeroVec
      desiredVel == ZeroVec
  IN  [ topic |-> "joint_trajectory_controller/state",
        joint_names |-> joint_names_,
        desired |-> [positions |-> desiredPos, velocities |-> desiredVel],
        actual |-> [positions |-> msg.position, velocities |-> msg.velocity],
        error |-> [positions |-> [j \in Axes |-> Minus(msg.position[j], desiredPos[j])],
                   velocities |-> [j \in Axes |-> Minus(msg.velocity[j], desiredVel[j])]] ]

\* controllermsg
ControllerStateMsg(msg, target) ==
  LET desiredPos == IF Len(target) # 0
                    THEN [j \in Axes |-> DegToRad(target[FromDeviceIndex[j]])]
                    ELSE ZeroVec
      desiredVel == ZeroVec
  IN  [ topic |-> "joint_trajectory_controller/state",
        joint_names |-> joint_names_,
        desired |-> [positions |-> desiredPos, velocities |-> desiredVel],
        actual |-> [positions |-> msg.position, velocities |-> msg.velocity],
        error |-> [positions |-> [j \in Axes |-> Minus(desiredPos[j], msg.position[j])],
                   velocities |-> [j \in Axes |-> Minus(desiredVel[j], msg.velocity[j])]] ]

\* updateSdh, lines 722-825: read angles and velocities, publish the joint and
\* controller states.  A failed read leaves its vector empty, and indexing the
\* empty vector either traps or yields some value.
TickPublish ==
  /\ pcMain = "publish"
  /\ \E oks \in Outcomes(2), a \in ActualVectors, v \in ActualVectors,
        g \in GarbageVectors, trap \in BOOLEAN :
       LET cs == << Call("GetAxisActualAngle", oks[1]), Call("GetAxisActualVelocity", oks[2]) >>
           msg == JointStateMsg(IF oks[1] THEN a ELSE g, IF oks[2] THEN v ELSE g)
       IN  /\ Device(cs)
           /\ trap => Threw(cs)
           /\ IF trap
              THEN Escape("updateSdh", calls \o cs)
              ELSE /\ Goto("updateSdh", "readstate", calls \o cs)
                   /\ published' = published \o
                        << msg, MimicJointMsg(msg), ControllerStateMsg(msg, targetAngles_) >>
                   /\ UNCHANGED req
  /\ UNCHANGED << cfgVars, nodeVars, execVars, isOpen >>

\* temp_array with the size test of line 834 left out
TemperatureMsgUnchecked(t) ==
  [topic |-> "temperature", name |-> temperature_names_, temperature |-> t]

\* temp_array
TemperatureMsg(t) ==
  IF Len(t) = Len(temperature_names_)
  THEN [topic |-> "temperature", name |-> temperature_names_, temperature |-> t]
  ELSE [topic |-> "temperature", name |-> << >>, temperature |-> << >>]

\* updateSdh, lines 827-874: read the axis states and the temperatures (neither
\* inside a try block), publish temperatures and diagnostics.  The GetTemperature
\* call is recorded with the readings it returned.
TickReadState ==
  /\ pcMain = "readstate"
  /\ \E oks \in Outcomes(2), s \in AxisStateVectors, t \in TemperatureReadings :
       LET cs == << Call("GetAxisActualState", oks[1]) >> \o
                 (IF oks[1]
                  THEN << CallWith("GetTemperature", IF oks[2] THEN t ELSE << >>, oks[2]) >>
                  ELSE << >>)
       IN  /\ Device(cs)
           /\ state_' = IF oks[1] THEN s ELSE state_
           /\ IF Threw(cs)
              THEN Escape("updateSdh", calls \o cs)
              ELSE /\ Goto("updateSdh", "spin", calls \o cs)
                   /\ published' = published \o << TemperatureMsg(t), DiagnosticMsg >>
                   /\ UNCHANGED req
  /\ UNCHANGED << cfgVars, isInitialized_, hasNewGoal_, pendingFrom, operationMode_, targetAngles_,
                  velocities_, max_velocities_, execVars, isOpen >>

(***************************************************************************)
(* switchOperationMode, after its first statement (hasNewGoal_ = false):   *)
(* lines 228-255.  Stop() is outside the try block.                        *)
(***************************************************************************)
\* the device calls made, given the outcomes oks of Stop, SetController, SetAxisEnable
switchCalls(mode, oks) ==
  << Call("Stop", oks[1]) >> \o
  ( IF ~oks[1] THEN << >>
    ELSE IF mode = "position"
    THEN Try(<< "SetController(eCT_POSE)", "SetAxisEnable(1)" >>, << oks[2], oks[3] >>)
    ELSE IF mode = "velocity"
    THEN Try(<< "SetController(eCT_VELOCITY)", "SetAxisEnable(1)" >>, << oks[2], oks[3] >>)
    ELSE << >> )

\* "throw" when Stop threw, else what switchOperationMode returns
switchResult(mode, oks) ==
  IF ~oks[1] THEN "throw"
  ELSE IF mode \notin {"position", "velocity"} THEN "false"
  ELSE IF oks[2] /\ oks[3] THEN "true"
  ELSE "false"

(***************************************************************************)
(* srvCallback_Init (also bound to the recover service).                   *)
(***************************************************************************)
\* the Open call srvCallback_Init makes for the configured transport, "" if none
OpenCall(type, dev) ==
  IF type = "RS232" THEN "OpenRS232"
  ELSE IF type = "PCAN" THEN "OpenCAN_PEAK"
  ELSE IF type = "TCP" THEN "OpenTCP"
  ELSE IF type = "ESD" /\ dev = "/dev/can0" THEN "OpenCAN_ESD(0)"
  ELSE IF type = "ESD" /\ dev = "/dev/can1" THEN "OpenCAN_ESD(1)"
  ELSE ""

\* the calls of lines 392-440, given the outcomes of the Open call and of GetAxisMaxVelocity
initCalls(type, dev, oks) ==
  LET open == OpenCall(type, dev)
  IN  IF type = "ESD" /\ open = "" THEN << >>
      ELSE IF open = "" THEN << Call("GetAxisMaxVelocity", oks[2]) >>
      ELSE Try(<< open, "GetAxisMaxVelocity" >>, oks)

\* lines 386-448 and 456-464: open the transport, fetch the max velocities
srvCallback_Init ==
  /\ pcMain = "spin"
  /\ req' = NoReq
  /\ published' = << >>
  /\ IF isInitialized_
     THEN /\ Return("srvCallback_Init", << >>, Response(TRUE, "sdh already initialized"))
          /\ UNCHANGED << isInitialized_, max_velocities_, devVars >>
     ELSE \E oks \in Outcomes(2) :
            LET open == OpenCall(sdhdevicetype_, sdhdevicestring_)
                cs == initCalls(sdhdevicetype_, sdhdevicestring_, oks)
                opened == open # "" /\ Returned(cs, open)
            IN  /\ Device(cs)
                /\ isInitialized_' = opened
                /\ isOpen' = (isOpen \/ opened)
                /\ max_velocities_' = IF Returned(cs, "GetAxisMaxVelocity")
                                      THEN AxisMaxVelocity ELSE max_velocities_
                /\ IF sdhdevicetype_ = "ESD" /\ open = ""
                   THEN Return("srvCallback_Init", cs,
                               Response(FALSE, "Currently only support for /dev/can0 and /dev/can1"))
                   ELSE IF Threw(cs)
                   THEN Return("srvCallback_Init", cs, Response(FALSE, "what"))
                   ELSE Goto("srvCallback_Init", "init_clear", cs)
  /\ UNCHANGED << cfgVars, hasNewGoal_, pendingFrom, operationMode_, targetAngles_,
                  velocities_, state_, execVars >>

\* line 449 -> line 227: switchOperationMode(operationMode_) clears the flag
InitClear ==
  /\ pcMain = "init_clear"
  /\ hasNewGoal_' = FALSE
  /\ pendingFrom' = "none"
  /\ pcMain' = "init_switch"
  /\ UNCHANGED << cfgVars, isInitialized_, operationMode_, targetAngles_, velocities_,
                  max_velocities_, state_, handler, req, res, calls, published, execVars,
                  devVars >>

\* lines 228-255, then 449-464
InitSwitch ==
  /\ pcMain = "init_switch"
  /\ \E oks \in Outcomes(3) :
       LET sw == switchCalls(operationMode_, oks)
           r == switchResult(operationMode_, oks)
       IN  /\ Device(sw)
           /\ IF r = "throw"
              THEN Escape("srvCallback_Init", calls \o sw)
              ELSE IF r = "false"
              THEN Return("srvCallback_Init", calls \o sw,
                          Response(FALSE, "Could not set operation mode"))
              ELSE Return("srvCallback_Init", calls \o sw, Response(TRUE, ""))
  /\ UNCHANGED << cfgVars, nodeVars, execVars, isOpen >>

(***************************************************************************)
(* The other services.                                                     *)
(***************************************************************************)
\* srvCallback_Stop: the exception is caught and success is reported
srvCallback_Stop ==
  /\ pcMain = "spin"
  /\ \E oks \in Outcomes(1) :
       LET cs == << Call("Stop", oks[1]) >>
       IN  /\ Device(cs)
           /\ Return("srvCallback_Stop", cs, Response(TRUE, ""))
  /\ UNCHANGED << cfgVars, nodeVars, execVars, isOpen >>

\* srvCallback_SetOperationMode, lines 518-520 and 227: the flag is cleared, Stop
\* is called (outside any try block), the flag is cleared again.  Nothing but the
\* Stop call lies between the two clearings, so they are one step.
srvCallback_SetOperationMode ==
  /\ pcMain = "spin"
  /\ \E mode \in ModeStrings, oks \in Outcomes(1) :
       LET cs == << Call("Stop", oks[1]) >>
       IN  /\ Device(cs)
           /\ hasNewGoal_' = FALSE
           /\ pendingFrom' = "none"
           /\ IF oks[1]
              THEN /\ Goto("srvCallback_SetOperationMode", "setmode_switch", cs)
                   /\ req' = ModeReq(mode)
                   /\ published' = << >>
              ELSE Escape("srvCallback_SetOperationMode", cs)
  /\ UNCHANGED << cfgVars, isInitialized_, operationMode_, targetAngles_, velocities_,
                  max_velocities_, state_, execVars, isOpen >>

\* lines 521-541: the controller is set once more, by the mode now active
setModeAgainCalls(mode, oks) ==
  IF mode = "position"
  THEN << Call("SetController(eCT_POSE)", oks[4]) >>
  ELSE IF mode = "velocity"
  THEN Try(<< "SetController(eCT_VELOCITY)", "SetAxisEnable(1)" >>, << oks[4], oks[5] >>)
  ELSE << >>

\* lines 228-255, then 520-542
SetModeSwitch ==
  /\ pcMain = "setmode_switch"
  /\ \E oks \in Outcomes(5) :
       LET sw == switchCalls(req.mode, oks)
           r == switchResult(req.mode, oks)
           mode == IF r = "true" THEN req.mode ELSE operationMode_
           cs == IF r = "throw" THEN sw ELSE sw \o setModeAgainCalls(mode, oks)
       IN  /\ Device(cs)
           /\ operationMode_' = mode
           /\ IF r = "throw" \/ (mode = "position" /\ ~oks[4])
              THEN Escape("srvCallback_SetOperationMode", calls \o cs)
              ELSE Return("srvCallback_SetOperationMode", calls \o cs, Response(r = "true", ""))
  /\ UNCHANGED << cfgVars, isInitialized_, hasNewGoal_, pendingFrom, targetAngles_, velocities_,
                  max_velocities_, state_, execVars, isOpen >>

\* the response of a service whose body is one try block around the calls cs
TryResponse(cs, message) == IF Threw(cs) THEN Response(FALSE, "what") ELSE Response(TRUE, message)

\* srvCallback_EmergencyStop with line 554 moved behind the device calls of the
\* try block: a call that throws then skips it
EmergencyStopResetLast ==
  /\ pcMain = "spin"
  /\ \E oks \in Outcomes(3) :
       LET cs == Try(<< "EmergencyStop", "SetAxisEnable(0)", "SetAxisMotorCurrent(0)" >>, oks)
       IN  /\ Device(cs)
           /\ isInitialized_' = IF Threw(cs) THEN isInitialized_ ELSE FALSE
           /\ Return("srvCallback_EmergencyStop", cs, TryResponse(cs, "EMERGENCY stop"))
  /\ UNCHANGED << cfgVars, hasNewGoal_, pendingFrom, operationMode_, targetAngles_, velocities_,
                  max_velocities_, state_, execVars, isOpen >>

\* srvCallback_EmergencyStop
srvCallback_EmergencyStop ==
  /\ pcMain = "spin"
  /\ isInitialized_' = FALSE
  /\ \E oks \in Outcomes(3) :
       LET cs == Try(<< "EmergencyStop", "SetAxisEnable(0)", "SetAxisMotorCurrent(0)" >>, oks)
       IN  /\ Device(cs)
           /\ Return("srvCallback_EmergencyStop", cs, TryResponse(cs, "EMERGENCY stop"))
  /\ UNCHANGED << cfgVars, hasNewGoal_, pendingFrom, operationMode_, targetAngles_, velocities_,
                  max_velocities_, state_, execVars, isOpen >>

\* srvCallback_Disconnect
srvCallback_Disconnect ==
  /\ pcMain = "spin"
  /\ isInitialized_' = FALSE
  /\ \E oks \in Outcomes(3) :
       LET cs == Try(<< "SetAxisEnable(0)", "SetAxisMotorCurrent(0)", "Close" >>, oks)
       IN  /\ Device(cs)
           /\ Return("srvCallback_Disconnect", cs, TryResponse(cs, "disconnected from SDH"))
           /\ isOpen' = IF Returned(cs, "Close") THEN FALSE ELSE isOpen
  /\ UNCHANGED << cfgVars, hasNewGoal_, pendingFrom, operationMode_, targetAngles_, velocities_,
                  max_velocities_, state_, execVars >>

\* srvCallback_MotorPowerOn
srvCallback_MotorPowerOn ==
  /\ pcMain = "spin"
  /\ \E oks \in Outcomes(2) :
       LET cs == Try(<< "SetAxisEnable(1)", "SetAxisMotorCurrent(0.5)" >>, oks)
       IN  /\ Device(cs)
           /\ Return("srvCallback_MotorPowerOn", cs, TryResponse(cs, "Motor ON"))
  /\ UNCHANGED << cfgVars, nodeVars, execVars, isOpen >>

\* srvCallback_MotorPowerOff
srvCallback_MotorPowerOff ==
  /\ pcMain = "spin"
  /\ \E oks \in Outcomes(2) :
       LET cs == Try(<< "SetAxisEnable(0)", "SetAxisMotorCurrent(0)" >>, oks)
       IN  /\ Device(cs)
           /\ Return("srvCallback_MotorPowerOff", cs, TryResponse(cs, "Motor OFF"))
  /\ UNCHANGED << cfgVars, nodeVars, execVars, isOpen >>

(***************************************************************************)
(* topicCallback_setVelocitiesRaw: runs on the main thread, inside         *)
(* spinOnce.                                                               *)
(***************************************************************************)
\* lines 368-374: raw order to axis order, rad/s to deg/s
velocitiesFromRaw(data) == [i \in Axes |-> RadToDeg(data[RawIndex[i]])]

\* lines 346-362: the three rejections
topicCallback_setVelocitiesRaw ==
  /\ pcMain = "spin"
  /\ published' = << >>
  /\ \E data \in VelocityMsgs :
       IF  \/ ~isInitialized_
           \/ Len(data) # Len(velocities_)
           \/ operationMode_ # "velocity"
       THEN Return("topicCallback_setVelocitiesRaw", << >>, NoRes)
       ELSE /\ Goto("topicCallback_setVelocitiesRaw", "vel_wait", << >>)
            /\ req' = DataReq(data)
  /\ UNCHANGED << cfgVars, nodeVars, execVars, devVars >>

\* lines 365-366: while (hasNewGoal_ == true) usleep(10000), the test that finds
\* the flag clear; until then the main thread stays in the loop
VelocityWait ==
  /\ pcMain = "vel_wait"
  /\ ~hasNewGoal_
  /\ pcMain' = "vel_install"
  /\ UNCHANGED << cfgVars, nodeVars, handler, req, res, calls, published, execVars, devVars >>

\* lines 368-377
VelocityInstall ==
  /\ pcMain = "vel_install"
  /\ velocities_' = velocitiesFromRaw(req.data)
  /\ hasNewGoal_' = TRUE
  /\ pendingFrom' = "velocity"
  /\ Return("topicCallback_setVelocitiesRaw", << >>, NoRes)
  /\ UNCHANGED << cfgVars, isInitialized_, operationMode_, targetAngles_, max_velocities_,
                  state_, execVars, devVars >>

(***************************************************************************)
(* The action server as_ (actionlib::SimpleActionServer).  Its goal        *)
(* callback runs inside spinOnce and keeps the goal as the next goal; its  *)
(* execute thread takes the next goal and calls executeCB with it.         *)
(***************************************************************************)
\* a goal arrives: as_.isNewGoalAvailable() becomes true
GoalArrives ==
  /\ pcMain = "spin"
  /\ new_goal_' = TRUE
  /\ Return("goalCallback", << >>, NoRes)
  /\ UNCHANGED << cfgVars, nodeVars, pcExec, cur_goal, as_status, execLog, devVars >>

\* main(), lines 915-923: spinOnce returns, the loop sleeps and ticks again
EndSpin ==
  /\ pcMain = "spin"
  /\ pcMain' = "tick"
  /\ handler' = "none"
  /\ calls' = << >>
  /\ res' = NoRes
  /\ req' = NoReq
  /\ published' = << >>
  /\ UNCHANGED << cfgVars, nodeVars, execVars, devVars >>

Running == pcMain # "crashed"

\* executeCB leaves with the goal's terminal state and its last log line
ExecReturn(status, log) ==
  /\ pcExec' = "idle"
  /\ as_status' = status
  /\ execLog' = log
  /\ cur_goal' = NoGoal
  /\ UNCHANGED new_goal_

\* executeCB moves on to position p
ExecGoto(p) ==
  /\ pcExec' = p
  /\ UNCHANGED << cur_goal, new_goal_, as_status, execLog >>

\* the execute thread accepts the next goal and calls executeCB with it
ExecAccept ==
  /\ Running
  /\ pcExec = "idle"
  /\ new_goal_
  /\ cur_goal' = NoGoal
  /\ new_goal_' = FALSE
  /\ pcExec' = "check_mode"
  /\ as_status' = "active"
  /\ execLog' = "sdh: executeCB"
  /\ UNCHANGED << cfgVars, nodeVars, mainVars, devVars >>

\* executeCB without the test of lines 267-272: the goal goes on whatever the mode
ExecCheckModeNoReject ==
  /\ Running
  /\ pcExec = "check_mode"
  /\ ExecGoto("check_init")
  /\ UNCHANGED << cfgVars, nodeVars, mainVars, devVars >>

\* lines 267-272
ExecCheckMode ==
  /\ Running
  /\ pcExec = "check_mode"
  /\ IF operationMode_ # "position"
     THEN ExecReturn("aborted", "Rejected, sdh not in position mode")
     ELSE ExecGoto("check_init")
  /\ UNCHANGED << cfgVars, nodeVars, mainVars, devVars >>

\* lines 273-285.  The goal's content is first looked at here, so it is drawn here.
ExecCheckInit ==
  /\ Running
  /\ pcExec = "check_init"
  /\ IF ~isInitialized_
     THEN ExecReturn("aborted", "Rejected, sdh not initialized")
     ELSE \E goal \in Goals :
            IF goal.points = << >> \/ Len(goal.points[1]) # DOF_
            THEN ExecReturn("aborted", "Rejected, malformed FollowJointTrajectoryGoal")
            ELSE /\ pcExec' = "wait"
                 /\ cur_goal' = goal
                 /\ UNCHANGED << new_goal_, as_status, execLog >>
  /\ UNCHANGED << cfgVars, nodeVars, mainVars, devVars >>

\* lines 286-287: while (hasNewGoal_ == true) usleep(10000), the test that finds
\* the flag clear; until then the execute thread stays in the loop
ExecWait ==
  /\ Running
  /\ pcExec = "wait"
  /\ ~hasNewGoal_
  /\ ExecGoto("write")
  /\ UNCHANGED << cfgVars, nodeVars, mainVars, devVars >>

\* lines 289-293 and std::map::operator[]: the 0-based index of the last
\* occurrence of the name, 0 when the name is absent
dict(names, name) ==
  IF \E idx \in 1..Len(names) : names[idx] = name
  THEN (CHOOSE idx \in 1..Len(names) :
          names[idx] = name /\ \A l \in (idx + 1)..Len(names) : names[l] # name) - 1
  ELSE 0

\* lines 295-302: joint order to axis order, radians to degrees
targetAnglesFromGoal(goal) ==
  [i \in Axes |-> RadToDeg(goal.points[1][dict(goal.joint_names, AxisJointName[i]) + 1])]

\* lines 295-311 with the target sent to the device by executeCB itself, on the
\* execute thread
ExecWriteAndSend ==
  /\ Running
  /\ pcExec = "write"
  /\ targetAngles_' = targetAnglesFromGoal(cur_goal)
  /\ calls' = calls \o << CallWith("SetAxisTargetAngle", targetAnglesFromGoal(cur_goal), TRUE) >>
  /\ ExecGoto("install")
  /\ UNCHANGED << cfgVars, isInitialized_, hasNewGoal_, pendingFrom, operationMode_, velocities_,
                  max_velocities_, state_, pcMain, handler, req, res, published, devVars >>

\* lines 295-311
ExecWrite ==
  /\ Running
  /\ pcExec = "write"
  /\ targetAngles_' = targetAnglesFromGoal(cur_goal)
  /\ ExecGoto("install")
  /\ UNCHANGED << cfgVars, isInitialized_, hasNewGoal_, pendingFrom, operationMode_, velocities_,
                  max_velocities_, state_, mainVars, devVars >>

\* lines 313-315.  The goal is not looked at again after line 311.
ExecInstall ==
  /\ Running
  /\ pcExec = "install"
  /\ hasNewGoal_' = TRUE
  /\ pendingFrom' = "position"
  /\ pcExec' = "poll_new"
  /\ cur_goal' = NoGoal
  /\ UNCHANGED << new_goal_, as_status, execLog >>
  /\ UNCHANGED << cfgVars, isInitialized_, operationMode_, targetAngles_, velocities_,
                  max_velocities_, state_, mainVars, devVars >>

\* lines 320-325
ExecPollNew ==
  /\ Running
  /\ pcExec = "poll_new"
  /\ IF new_goal_
     THEN ExecReturn("aborted", "Aborted")
     ELSE ExecGoto("poll_state")
  /\ UNCHANGED << cfgVars, nodeVars, mainVars, devVars >>

\* lines 326-337: `finished` after the loop over state_, each pass assigning it
RECURSIVE finishedAfter(_, _, _)
finishedAfter(st, i, finished) ==
  IF i > Len(st) THEN finished
  ELSE finishedAfter(st, i + 1, st[i] = 0)

\* lines 326-343
ExecPollState ==
  /\ Running
  /\ pcExec = "poll_state"
  /\ IF finishedAfter(state_, 1, FALSE)
     THEN ExecReturn("succeeded", "Succeeded")
     ELSE ExecGoto("poll_new")
  /\ UNCHANGED << cfgVars, nodeVars, mainVars, devVars >>

(***************************************************************************)
(* The specification.                                                      *)
(***************************************************************************)
Tick == TickStart \/ TickDispatch \/ TickClear \/ TickPublish \/ TickReadState

Callback ==
  \/ srvCallback_Init \/ InitClear \/ InitSwitch
  \/ srvCallback_Stop
  \/ srvCallback_SetOperationMode \/ SetModeSwitch
  \/ srvCallback_EmergencyStop
  \/ srvCallback_Disconnect
  \/ srvCallback_MotorPowerOn
  \/ srvCallback_MotorPowerOff
  \/ topicCallback_setVelocitiesRaw \/ VelocityWait \/ VelocityInstall
  \/ GoalArrives

executeCB ==
  \/ ExecAccept \/ ExecCheckMode \/ ExecCheckInit \/ ExecWait \/ ExecWrite
  \/ ExecInstall \/ ExecPollNew \/ ExecPollState

Next == Tick \/ Callback \/ EndSpin \/ executeCB

Spec == Init /\ [][Next]_vars

\* the steps the main thread takes by itself: the tick, and the rest of a
\* callback that has begun (the arrival of a request is up to the clients)
MainStep ==
  \/ Tick
  \/ InitClear \/ InitSwitch \/ SetModeSwitch \/ VelocityWait \/ VelocityInstall

\* main()'s loop keeps running: every begun function goes on while it can, and
\* spinOnce returns again and again (it runs only the callbacks queued when it
\* was called); the execute thread keeps being scheduled
FairSpec ==
  /\ Spec
  /\ WF_vars(MainStep)
  /\ SF_vars(EndSpin)
  /\ WF_vars(executeCB)

(***************************************************************************)
(* The claims.                                                             *)
(***************************************************************************)
\* a submission writes a goal buffer (lines 295-302) or sets the pending flag
\* (lines 313, 368-376)
SubmissionStep ==
  \/ pcExec = "write" /\ pcExec' = "install"
  \/ pcExec = "install" /\ pcExec' = "poll_new"
  \/ pcMain = "vel_install" /\ pcMain' = "spin"

\* C1: at most one goal is outstanding: a submission writes its goal buffer and
\* sets the pending flag only when no installed goal is waiting for the tick, in
\* every interleaving of the tick, the execute thread and the callbacks.
C1_SubmitOnlyWhenConsumed == [][SubmissionStep => ~hasNewGoal_]_vars

\* a validated submission waits for the pending slot
Blocked ==
  \/ pcMain = "vel_wait" /\ hasNewGoal_
  \/ pcExec = "wait" /\ hasNewGoal_

\* the wait of a submission is over: it goes on to install its goal (or the
\* node has stopped running)
WaitOver == pcMain = "vel_install" \/ pcExec = "write" \/ pcMain = "crashed"

\* C2: a validated submission that finds the pending slot occupied blocks and
\* then eventually installs its goal; its wait never lasts forever while the
\* node keeps being scheduled.
C2_BlockedEventuallyInstalls == Blocked ~> WaitOver

\* C3: executeCB reports Succeeded only when every one of the 7 axis states
\* last read from the device is idle (0).
C3_SucceededOnlyWhenAllIdle ==
  [][(pcExec = "poll_state" /\ as_status' = "succeeded") => \A i \in Axes : state_[i] = 0]_vars

\* C4: every velocity vector the tick hands to the device has each component
\* inside [-maxVelocity, +maxVelocity] of the device's calibration, a component
\* already inside being handed over unchanged, after any sequence of init
\* (failed ones included), mode switches and velocity submissions.
C4_DispatchedVelocitiesClamped ==
  [][(pcMain = "dispatch" /\ operationMode_ = "velocity") =>
       \A n \in (Len(calls) + 1)..Len(calls') :
         calls'[n].call = "SetAxisTargetVelocity" =>
           \A i \in Axes :
             calls'[n].arg[i] =
               ToRange(velocities_[i], Neg(AxisMaxVelocity[i]), AxisMaxVelocity[i])]_vars

\* srvCallback_Init has ended, by returning or by an exception leaving it
InitEnded == handler = "srvCallback_Init" /\ pcMain \in {"spin", "crashed"}

\* the device call of srvCallback_Init that threw was the transport's open or a
\* call of the mode switch
InitOpenOrSwitchError ==
  /\ calls # << >>
  /\ ~calls[Len(calls)].ok
  /\ calls[Len(calls)].call # "GetAxisMaxVelocity"

\* C5: a device error during Init's transport open or during its mode switch
\* makes Init return success = false with a message, and leaves the node
\* Disconnected.
C5_InitErrorLeavesDisconnected ==
  (InitEnded /\ InitOpenOrSwitchError) =>
    /\ res.returned
    /\ ~res.success
    /\ res.message # ""
    /\ ~isInitialized_

\* C6: whenever Init returns success = true the node is Connected, the max
\* velocities have been fetched and the active mode is the configured
\* OperationMode, for every configured transport type.
C6_InitSuccessMeansConnected ==
  (InitEnded /\ res.returned /\ res.success) =>
    /\ isInitialized_
    /\ max_velocities_ = AxisMaxVelocity
    /\ operationMode_ = cfgOperationMode

\* C7: a position goal executeCB is called with while the mode is not position
\* is aborted at once: executeCB never enters its wait loop, and neither the
\* pending flag nor the target angles change.
C7_WrongModeRejected ==
  [][(pcExec = "check_mode" /\ operationMode_ # "position" /\ pcExec' # pcExec) =>
       /\ pcExec' = "idle"
       /\ as_status' = "aborted"
       /\ hasNewGoal_' = hasNewGoal_
       /\ targetAngles_' = targetAngles_]_vars

\* a goal has been rejected for the mode while a velocity goal was pending and
\* a target of an earlier position goal was stored
C7_Witness ==
  /\ pcExec = "idle"
  /\ as_status = "aborted"
  /\ execLog = "Rejected, sdh not in position mode"
  /\ operationMode_ # "position"
  /\ hasNewGoal_
  /\ targetAngles_ # << >>

\* C8: when set_operation_mode(X) returns success, the active mode is X and no
\* goal is pending, whatever the execute thread does meanwhile.
C8_ModeSwitchLeavesSlotEmpty ==
  [][(pcMain = "setmode_switch" /\ pcMain' = "spin" /\ res'.success) =>
       /\ operationMode_' = req.mode
       /\ ~hasNewGoal_']_vars

\* the reads of updateSdh's read-back
ReadCalls ==
  {"GetAxisActualAngle", "GetAxisActualVelocity", "GetAxisActualState", "GetTemperature"}

\* a read of the running (or just ended) tick threw
ReadError ==
  /\ handler = "updateSdh"
  /\ \E n \in 1..Len(calls) : calls[n].call \in ReadCalls /\ ~calls[n].ok

\* C9: a device read error during a connected tick's read-back does not abort
\* the cycle: the tick runs to its end and publishes its diagnostics.
C9_ReadErrorAbsorbed ==
  ReadError =>
    /\ pcMain # "crashed"
    /\ pcMain = "spin" =>
         /\ published # << >>
         /\ published[Len(published)].topic = "diagnostics"

\* the handlers of stop, emergency_stop, disconnect, motor_on, motor_off and
\* set_operation_mode
SimpleServices ==
  {"srvCallback_Stop", "srvCallback_EmergencyStop", "srvCallback_Disconnect",
   "srvCallback_MotorPowerOn", "srvCallback_MotorPowerOff", "srvCallback_SetOperationMode"}

\* C10: in each of these handlers a device error is caught and answered with
\* success = false: no error leaves the handler, and success = true is answered
\* only when every device call of the handler returned.
C10_DeviceErrorMeansFailure ==
  (handler \in SimpleServices /\ pcMain \in {"spin", "crashed"}) =>
    /\ pcMain = "spin"
    /\ res.returned
    /\ Threw(calls) => ~res.success

\* a request or message the code rejects by looking at it: a mode that is
\* neither "position" nor "velocity" (lines 240-244), a goal without a point or
\* with a first point of the wrong size (line 280), a velocity array of the
\* wrong size (line 353)
UnsupportedMode(mode) == mode \notin {"position", "velocity"}

MalformedGoalStep ==
  /\ pcExec = "check_init"
  /\ execLog' = "Rejected, malformed FollowJointTrajectoryGoal"

\* C11: a request rejected by validation (unsupported mode, malformed position
\* goal, velocity array of the wrong length) is rejected at once and makes no
\* device call.
C11_ValidationMakesNoDeviceCall ==
  [][/\ (pcMain = "spin" /\ pcMain' = "setmode_switch" /\ UnsupportedMode(req'.mode)) =>
          (calls' = << >> /\ faults' = faults)
     /\ (pcMain = "setmode_switch" /\ pcMain' # pcMain /\ UnsupportedMode(req.mode)) =>
          (calls' = calls /\ faults' = faults /\ res'.returned /\ ~res'.success)
     /\ MalformedGoalStep =>
          (pcExec' = "idle" /\ as_status' = "aborted" /\ calls' = calls /\ faults' = faults)
     /\ (pcMain = "spin" /\ handler' = "topicCallback_setVelocitiesRaw"
         /\ isInitialized_ /\ operationMode_ = "velocity" /\ pcMain' = "spin") =>
          (calls' = << >> /\ faults' = faults)]_vars

\* the goal names every one of the 7 joints and has a point
GoalComplete(goal) ==
  /\ goal.points # << >>
  /\ \A i \in Axes : \E idx \in 1..Len(goal.joint_names) : goal.joint_names[idx] = AxisJointName[i]

\* C12: a position goal that does not name every one of the 7 joints, or has no
\* point, is rejected and installs nothing: executeCB writes the target angles
\* and sets the pending flag only for a goal that names all 7 joints.
C12_InstalledGoalNamesAllJoints ==
  [][/\ (pcExec \in {"write", "install"} /\ pcExec' # pcExec) => GoalComplete(cur_goal)
     /\ MalformedGoalStep =>
          (hasNewGoal_' = hasNewGoal_ /\ targetAngles_' = targetAngles_)]_vars

\* the names of the calls cs, in order
Names(cs) == [n \in 1..Len(cs) |-> cs[n].call]

\* the calls cs are the calls `names` in order, up to the first that threw
MadeInOrder(cs, names) ==
  /\ Len(cs) >= 1
  /\ Len(cs) <= Len(names)
  /\ \A n \in 1..Len(cs) : cs[n].call = names[n]
  /\ \A n \in 1..(Len(cs) - 1) : cs[n].ok
  /\ Len(cs) < Len(names) => ~cs[Len(cs)].ok

\* C13: after emergency_stop or shutdown returns, with success or with failure,
\* the node is Disconnected; shutdown makes the calls disable-axes, zero-current
\* and close, emergency_stop the calls emergency-stop, disable-axes and
\* zero-current (each sequence ending at a call that throws), and emergency_stop
\* never closes the transport.
C13_StoppedNodeIsDisconnected ==
  /\ (handler = "srvCallback_EmergencyStop" /\ pcMain = "spin") =>
       /\ res.returned
       /\ ~isInitialized_
       /\ MadeInOrder(calls, << "EmergencyStop", "SetAxisEnable(0)", "SetAxisMotorCurrent(0)" >>)
       /\ \A n \in 1..Len(calls) : calls[n].call # "Close"
       /\ res.success <=> ~Threw(calls)
  /\ (handler = "srvCallback_Disconnect" /\ pcMain = "spin") =>
       /\ res.returned
       /\ ~isInitialized_
       /\ MadeInOrder(calls, << "SetAxisEnable(0)", "SetAxisMotorCurrent(0)", "Close" >>)
       /\ res.success <=> Returned(calls, "Close")
       /\ res.success => ~isOpen

\* emergency_stop has returned failure on a node that was connected: the
\* transport is still open and the node is Disconnected
C13_Witness ==
  /\ handler = "srvCallback_EmergencyStop"
  /\ pcMain = "spin"
  /\ res.returned
  /\ ~res.success
  /\ isOpen
  /\ ~isInitialized_
  /\ max_velocities_ # << >>

\* C14: a tick while the node is Disconnected makes no device call, leaves the
\* pending-goal slot and the target buffers as they are, and publishes exactly
\* one message, the diagnostic status with level Warning (1) and the text
\* "sdh not initialized".
C14_DisconnectedTickOnlyDiagnoses ==
  [][(pcMain = "tick" /\ ~isInitialized_ /\ pcMain' # pcMain) =>
       /\ pcMain' = "spin"
       /\ handler' = "updateSdh"
       /\ calls' = << >>
       /\ faults' = faults
       /\ isOpen' = isOpen
       /\ hasNewGoal_' = hasNewGoal_
       /\ targetAngles_' = targetAngles_
       /\ velocities_' = velocities_
       /\ state_' = state_
       /\ published' = << [topic |-> "diagnostics", level |-> 1,
                           message |-> "sdh not initialized"] >>]_vars

\* a tick has ended on a Disconnected node whose slot holds a goal
C14_Witness ==
  /\ pcMain = "spin"
  /\ handler = "updateSdh"
  /\ ~isInitialized_
  /\ hasNewGoal_
  /\ calls = << >>
  /\ Len(published) = 1
  /\ published[1].level = 1

\* a step that ends srvCallback_SetOperationMode after switchOperationMode has
\* returned false: the mode is none of the two, or SetController or
\* SetAxisEnable (the third and fourth call of the handler) threw inside the try
\* block of lines 230-251
FailedSwitchStep ==
  /\ pcMain = "setmode_switch"
  /\ pcMain' # pcMain
  /\ Len(calls') >= 2
  /\ calls'[2].ok
  /\ \/ UnsupportedMode(req.mode)
     \/ Len(calls') >= 3 /\ ~calls'[3].ok
     \/ Len(calls') >= 4 /\ ~calls'[4].ok

\* C15: a mode switch that fails, because the requested mode is neither
\* "position" nor "velocity" or because the device rejects the controller change,
\* is answered with failure and leaves operationMode_ as it was.
C15_FailedSwitchReturnsFailure ==
  [][FailedSwitchStep =>
       /\ operationMode_' = operationMode_
       /\ pcMain' = "spin"
       /\ res'.returned
       /\ ~res'.success]_vars

\* executeCB is in one of its two waits (the loop of line 286, the loop of lines
\* 316-340) and the action server holds a newer goal
Superseded ==
  /\ pcExec \in {"wait", "poll_new", "poll_state"}
  /\ new_goal_

\* executeCB has returned (or the node has stopped running)
HandlerEnded == pcExec = "idle" \/ pcMain = "crashed"

\* C16: a goal handler that waits on behalf of an earlier goal does not wait
\* forever once a newer goal is available: it ends its wait, whether the node is
\* Connected or Disconnected and the slot empty or occupied.
C16_SupersededHandlerEnds == Superseded ~> HandlerEnded

\* the controller-state messages published by the tick under way or just ended
ControllerStates ==
  { published[n] : n \in { m \in 1..Len(published) :
                             published[m].topic = "joint_trajectory_controller/state" } }

\* C17: in every controller-state message, for each of the 7 joints, the error
\* position is desired minus actual position and the error velocity desired
\* minus actual velocity; desired is all zero while no position goal has been
\* written (targetAngles_ still empty).
C17_ErrorIsDesiredMinusActual ==
  \A c \in ControllerStates :
    /\ Len(c.error.positions) = DOF_
    /\ Len(c.error.velocities) = DOF_
    /\ \A j \in Axes :
         /\ c.error.positions[j] = Minus(c.desired.positions[j], c.actual.positions[j])
         /\ c.error.velocities[j] = Minus(c.desired.velocities[j], c.actual.velocities[j])
    /\ targetAngles_ = << >> =>
         (c.desired.positions = ZeroVec /\ c.desired.velocities = ZeroVec)

\* a controller state has been published after a position goal was written: the
\* desired positions are not all zero and differ from the actual ones
C17_Witness ==
  \E c \in ControllerStates :
    /\ targetAngles_ # << >>
    /\ c.desired.positions # ZeroVec
    /\ \E j \in Axes : c.error.positions[j] # Zero
    /\ \E j \in Axes : c.error.velocities[j] # Zero

\* the device axis (1-based) that executeCB writes the goal value of joint `name` to
AxisOf(name) == CHOOSE i \in Axes : AxisJointName[i] = name

\* the position goal `goal` submits for joint `name`
Submitted(goal, name) ==
  goal.points[1][CHOOSE idx \in 1..Len(goal.joint_names) : goal.joint_names[idx] = name]

\* C18: the joint-to-axis permutation of executeCB and the axis-to-joint
\* permutation of updateSdh are inverses of each other: at every publishing step,
\* for every joint j and every goal naming all joints whose angles are in
\* targetAngles_, the desired position published for j is exactly the value the
\* goal submitted for j, and the actual position published for j is the angle
\* the device read from the axis that executeCB writes j to.
C18_PermutationsAreInverse ==
  [][(pcMain = "publish" /\ pcMain' = "readstate") =>
       LET c == published'[Len(published')]
       IN  /\ c.topic = "joint_trajectory_controller/state"
           /\ \A g \in { h \in Goals : GoalComplete(h) } :
                targetAngles_ = targetAnglesFromGoal(g) =>
                  \A j \in Axes : c.desired.positions[j] = Submitted(g, joint_names_[j])
           /\ Returned(calls', "GetAxisActualAngle") =>
                \E a \in ActualVectors :
                  \A j \in Axes :
                    c.actual.positions[j] = DegToRad(a[AxisOf(joint_names_[j])])]_vars

\* the tick has published the controller state of a written position goal, with
\* the angles read from the device: sdh_thumb_3_joint (third) has the goal's
\* value and sdh_thumb_2_joint (second) the angle of axis 4
C18_Witness ==
  /\ pcMain = "readstate"
  /\ targetAngles_ = targetAnglesFromGoal(GoalFull)
  /\ Returned(calls, "GetAxisActualAngle")
  /\ \E c \in ControllerStates :
       /\ c.desired.positions[3] = Lit(MaxAngle)
       /\ c.desired.positions[5] = Lit(0 - MaxAngle)
       /\ c.actual.positions[2] = DegToRad(Lit(40))

\* the temperature messages published by the tick under way or just ended
TemperatureMsgs ==
  { published[n] : n \in { m \in 1..Len(published) : published[m].topic = "temperature" } }

\* a tick of a Connected node has ended: its last call is GetTemperature
ConnectedTickEnded == pcMain = "spin" /\ handler = "updateSdh" /\ calls # << >>

\* C19: in every published temperature message the name list and the value list
\* have the same length: when GetTemperature returned as many readings as there
\* are temperature names (9) the message has the 9 names and the 9 readings,
\* and when it returned another number both lists are empty.
C19_TemperatureListsSameLength ==
  /\ \A m \in TemperatureMsgs : Len(m.name) = Len(m.temperature)
  /\ ConnectedTickEnded =>
       LET answer == calls[Len(calls)]
       IN  /\ answer.call = "GetTemperature"
           /\ answer.ok
           /\ Cardinality(TemperatureMsgs) = 1
           /\ \A m \in TemperatureMsgs :
                IF Len(answer.arg) = Len(temperature_names_)
                THEN m.name = temperature_names_ /\ m.temperature = answer.arg /\ Len(m.name) = 9
                ELSE m.name = << >> /\ m.temperature = << >>

\* a tick has ended in which GetTemperature returned 8 readings: the message
\* published has no name and no value
C19_Witness ==
  /\ ConnectedTickEnded
  /\ Len(calls[Len(calls)].arg) = 8
  /\ \E m \in TemperatureMsgs : m.name = << >> /\ m.temperature = << >>

\* the names of the calls a step of the main thread adds to `calls`
NewCalls == [n \in 1..(Len(calls') - Len(calls)) |-> calls'[Len(calls) + n].call]

\* C20: the tick pushes a pending goal to the device according to what produced
\* it: after Stop, a goal installed by executeCB is pushed only as
\* SetAxisTargetAngle followed by MoveHand (MoveHand left out when
\* SetAxisTargetAngle throws), a goal installed by topicCallback_setVelocitiesRaw
\* only as SetAxisTargetVelocity, whatever mode switch came in between.
C20_DispatchFollowsProducer ==
  [][(pcMain = "dispatch" /\ pcMain' = "clear") =>
       /\ pendingFrom = "position" =>
            NewCalls \in { << "Stop", "SetAxisTargetAngle", "MoveHand" >>,
                           << "Stop", "SetAxisTargetAngle" >> }
       /\ pendingFrom = "velocity" =>
            NewCalls = << "Stop", "SetAxisTargetVelocity" >>]_vars

\* a step that clears the pending slot
SlotCleared == hasNewGoal_ /\ ~hasNewGoal_'

\* the step of a tick that makes the Stop and set-target calls
DispatchStep == pcMain = "dispatch" /\ pcMain' = "clear"

\* C21: the tick is the only operation that clears the pending slot, and it
\* clears the slot as soon as it has read it, before the Stop and set-target
\* device calls of its dispatch.
C21_TickClearsSlotBeforeDispatch ==
  [][/\ SlotCleared => handler' = "updateSdh"
     /\ DispatchStep => ~hasNewGoal_]_vars

\* C22: a tick of a Connected node that found a pending goal leaves the slot
\* empty when its dispatch ends, whether the Stop and set-target calls returned
\* or threw; the dispatch never ends the tick, it answers nobody (no response, no
\* change of the goal's status), and a tick dispatches only what was installed
\* since the slot was last cleared, so a failed dispatch is not tried again.
C22_DispatchAlwaysEmptiesSlot ==
  [][/\ (pcMain = "dispatch" /\ pcMain' # pcMain) =>
          /\ pcMain' = "clear"
          /\ pendingFrom # "none"
          /\ as_status' = as_status
          /\ execLog' = execLog
          /\ res' = res
     /\ (pcMain = "clear" /\ pcMain' # pcMain) =>
          /\ pcMain' = "publish"
          /\ ~hasNewGoal_'
          /\ pendingFrom' = "none"
          /\ as_status' = as_status
          /\ execLog' = execLog
          /\ res' = NoRes]_vars

\* a tick has cleared the slot after a dispatch whose set-target call threw
C22_Witness ==
  /\ pcMain = "publish"
  /\ handler = "updateSdh"
  /\ Len(calls) >= 2
  /\ calls[1].call = "Stop"
  /\ ~calls[2].ok
  /\ ~hasNewGoal_

\* a step in which device calls are made
DeviceCallMade == calls' # calls /\ calls' # << >>

\* a step of the execute thread (every step of executeCB moves its position)
ExecStep == pcExec' # pcExec

\* the functions that run on the main thread and call the device
MainThreadCallers ==
  { "updateSdh", "srvCallback_Init", "srvCallback_Stop", "srvCallback_SetOperationMode",
    "srvCallback_EmergencyStop", "srvCallback_Disconnect", "srvCallback_MotorPowerOn",
    "srvCallback_MotorPowerOff" }

\* C23: no two device calls are in progress at the same time: executeCB, on the
\* execute thread, makes no device call, and every device call is made by the
\* one function the main thread is in (the tick or one service handler), which
\* runs to its end before the next one starts.
C23_DeviceCallsOnMainThreadOnly ==
  [][/\ ExecStep => (calls' = calls /\ faults' = faults /\ isOpen' = isOpen)
     /\ DeviceCallMade =>
          /\ ~ExecStep
          /\ handler' \in MainThreadCallers
          /\ pcMain \in {"dispatch", "publish", "readstate"} => (handler = "updateSdh" /\ handler' = handler)
          /\ pcMain \in {"init_switch", "setmode_switch"} => handler' = handler
          /\ pcMain = "spin" => handler' # "updateSdh"]_vars

\* the tick has made the dispatch calls while executeCB is between accepting a
\* goal and returning
C23_Witness ==
  /\ pcMain = "clear"
  /\ Len(calls) >= 2
  /\ pcExec \in {"write", "install"}

\* executeCB reports its goal as succeeded (line 343)
SucceededStep == pcExec = "poll_state" /\ as_status' = "succeeded"

\* the goal executeCB installed is still in the slot and no tick has begun to
\* dispatch it: hasNewGoal_ was set last by line 313 and the tick is not between
\* its dispatch calls and line 719
PositionGoalUndispatched ==
  /\ hasNewGoal_
  /\ pendingFrom = "position"
  /\ pcMain # "clear"

\* C24: executeCB reports Succeeded only for a goal that a tick has dispatched
\* to the device, never for a goal that is still waiting in the slot, on the
\* strength of axis states read before the goal.
C24_SucceededOnlyAfterDispatch ==
  [][SucceededStep => ~PositionGoalUndispatched]_vars

\* main() is at the top of its loop, about to call updateSdh (line 918)
TickBegins == pcMain = "tick"

\* the process has ended on an uncaught exception
Crashed == pcMain = "crashed"

\* C25: the tick runs again and again: no callback run by the main thread waits
\* for ever for the pending slot to be cleared, so as long as the process lives
\* the main loop comes back to updateSdh, whatever executeCB does.
C25_TickRunsAgainAndAgain == []<>(TickBegins \/ Crashed)

\* srvCallback_Init makes the Open call of the configured transport
OpenIssued ==
  /\ pcMain = "spin"
  /\ handler' = "srvCallback_Init"
  /\ Len(calls') >= 1
  /\ calls'[1].call = OpenCall(sdhdevicetype_, sdhdevicestring_)

\* C26: the node is Connected only while the transport it opened is open, and
\* it opens the transport only when the transport is closed: after any sequence
\* of init, emergency_stop, shutdown and init again, no Open call is made on a
\* transport that an earlier init opened and that has not been closed since.
C26_OpenOnlyWhenClosed ==
  [][/\ isInitialized_' => isOpen'
     /\ OpenIssued => ~isOpen]_vars

====
